---------------------------- MODULE Spec2Model ----------------------------
(***************************************************************************)
(* A model of src/utils.py: parse_dxf_to_polygons, compute_areas_and_walls *)
(* and estimate_materials_for_workitems, run one after the other.          *)
(*                                                                         *)
(* Numbers.  Python floats are modelled as exact rationals in lowest       *)
(* terms, [n |-> numerator, d |-> denominator > 0]; rounding error is not  *)
(* modelled.  Division by zero is a fault, as in Python.                   *)
(*                                                                         *)
(* Libraries.  ezdxf and shapely are not part of the repository.  A shapely*)
(* Polygon is an axis-aligned rectangle given by its bounds, for which     *)
(* area, length and the inward buffer are exact; polygonize's faces and a  *)
(* buffer call raising are choices of the environment.                     *)
(***************************************************************************)
EXTENDS Integers, Sequences, FiniteSets, TLC

VARIABLES
    pc,                 \* position in the pipeline
    error,              \* the exception that ended the run, or "none"
    i,                  \* parse_dxf_to_polygons: entities iterated so far
    e,                  \* parse_dxf_to_polygons: the loop variable e
    geom_lines,         \* parse_dxf_to_polygons: the list geom_lines
    merged,             \* parse_dxf_to_polygons: unary_union(geom_lines)
    polygons,           \* the list parse returned and compute receives
    wall_thickness,     \* compute_areas_and_walls: argument
    units,              \* compute_areas_and_walls: argument
    offset_raises,      \* environment: the polygons whose buffer() raises
    rooms,              \* compute_areas_and_walls: the list rooms
    totals,             \* compute_areas_and_walls: the three running totals
    results,            \* the dict compute_areas_and_walls returned
    consts,             \* estimate_materials_for_workitems: keyword arguments
    materials           \* the dict estimate_materials_for_workitems returned

vars == <<pc, error, i, e, geom_lines, merged, polygons, wall_thickness, units,
          offset_raises, rooms, totals, results, consts, materials>>

---------------------------------------------------------------------------
(* Bounds of the model. *)

MaxEntities == 2
MaxPts == 3
MaxPolys == 2

---------------------------------------------------------------------------
(* Float arithmetic, exact. *)

Abs(x) == IF x < 0 THEN -x ELSE x

RECURSIVE GCD(_, _)
GCD(a, b) == IF b = 0 THEN a ELSE GCD(b, a % b)

\* n / d with d # 0, in lowest terms with a positive denominator
R(n, d) ==
    LET s == IF d < 0 THEN -1 ELSE 1
        g == GCD(Abs(n), Abs(d))
    IN  [n |-> (s * n) \div g, d |-> (s * d) \div g]

Zero == R(0, 1)
RInt(k) == R(k, 1)
\* the operands are in lowest terms; common factors are divided out before
\* multiplying, which keeps the intermediate integers small
RAdd(a, b) ==
    LET g == GCD(a.d, b.d)
    IN  R(a.n * (b.d \div g) + b.n * (a.d \div g), (a.d \div g) * b.d)
RSub(a, b) ==
    LET g == GCD(a.d, b.d)
    IN  R(a.n * (b.d \div g) - b.n * (a.d \div g), (a.d \div g) * b.d)
RMul(a, b) ==
    LET g1 == GCD(Abs(a.n), b.d)
        g2 == GCD(Abs(b.n), a.d)
    IN  R((a.n \div g1) * (b.n \div g2), (a.d \div g2) * (b.d \div g1))
\* a / b; the caller has excluded b = 0 (Python raises ZeroDivisionError)
RDiv(a, b) ==
    RMul(a, [n |-> IF b.n < 0 THEN -b.d ELSE b.d, d |-> Abs(b.n)])
RLt(a, b) ==
    LET g == GCD(a.d, b.d) IN a.n * (b.d \div g) < b.n * (a.d \div g)
RLe(a, b) ==
    LET g == GCD(a.d, b.d) IN a.n * (b.d \div g) <= b.n * (a.d \div g)
RMax(a, b) == IF RLt(a, b) THEN b ELSE a
\* math.ceil
Ceil(a) == -((-a.n) \div a.d)

---------------------------------------------------------------------------
(* parse_dxf_to_polygons: the entities of the modelspace. *)

\* e.dxf.start / e.dxf.end of a LINE: a 3-D point, or absent from the entity
Vec3s == {<<0, 0, 0>>, <<1, 0, 1>>}
\* the empty tuple stands for an absent attribute
Missing == <<>>
\* what get_points() (LWPOLYLINE) and vertices (POLYLINE) hold: tuples whose
\* first two components are x and y
RawPts == {<<0, 0, 0>>, <<1, 0, 1>>}

RECURSIVE SeqsUpTo(_, _)
SeqsUpTo(S, k) ==
    IF k = 0 THEN {<<>>}
    ELSE LET shorter == SeqsUpTo(S, k - 1)
         IN  shorter \cup {Append(s, x) : s \in {t \in shorter : Len(t) = k - 1}, x \in S}

LineEntities ==
    [type : {"LINE"}, start : Vec3s \cup {Missing}, end : Vec3s \cup {Missing}]

PolyEntities ==
    [type : {"LWPOLYLINE", "POLYLINE"}, readable : {TRUE},
     data : SeqsUpTo(RawPts, MaxPts)]
    \cup [type : {"LWPOLYLINE", "POLYLINE"}, readable : {FALSE}, data : {<<>>}]

\* entities of other types (ARC, TEXT, ...) are skipped by the loop
OtherEntities == {[type |-> "ARC"]}

Entities == LineEntities \cup PolyEntities \cup OtherEntities

NoEntity == [type |-> "none"]

\* a LINE whose start or end is absent
LineMalformed(en) == en.type = "LINE" /\ (en.start = Missing \/ en.end = Missing)
\* a LWPOLYLINE/POLYLINE whose vertex data cannot be read
PolyMalformed(en) == en.type \in {"LWPOLYLINE", "POLYLINE"} /\ ~en.readable
Malformed(en) == LineMalformed(en) \/ PolyMalformed(en)

\* tuple(p[:2]) if len(p) >= 2 else tuple(p)
Trunc2(p) == IF Len(p) >= 2 THEN SubSeq(p, 1, 2) ELSE p

\* the try/except of lines 37-44: get_points() exists on LWPOLYLINE only;
\* a POLYLINE falls back to its vertices; when both raise, pts = []
ReadPts(en) ==
    IF ~en.readable THEN <<>>
    ELSE IF en.type = "LWPOLYLINE"
         THEN [k \in 1..Len(en.data) |-> Trunc2(en.data[k])]
         ELSE en.data

\* if pts[0] != pts[-1]: pts.append(pts[0])
\* (variant: the closing point never appended)
ClosePtsOpen(pts) == pts
ClosePts(pts) ==
    IF pts[1] # pts[Len(pts)] THEN Append(pts, pts[1]) ELSE pts

\* the poly-vertex branch: what the entity adds to geom_lines
PolyContribution(en) ==
    LET pts == ReadPts(en)
    IN  IF Len(pts) >= 3 THEN <<ClosePts(pts)>> ELSE <<>>

\* the default ezdxf substitutes for an absent point attribute
NullVec == <<0, 0, 0>>

---------------------------------------------------------------------------
(* shapely Polygon: an axis-aligned rectangle, by its bounds. *)

\* candidate faces, in tenths of a unit then scaled: 10 x 6, 3 x 4, 0.3 x 0.3,
\* 0.4 x 1 and two degenerate (zero-area) loops
Tenths(minx, miny, maxx, maxy) ==
    [minx |-> R(minx, 10), miny |-> R(miny, 10), maxx |-> R(maxx, 10), maxy |-> R(maxy, 10)]

Faces ==
    {Tenths(0, 0, 100, 60), Tenths(120, 0, 150, 40), Tenths(0, 70, 3, 73),
     Tenths(0, 80, 4, 90), Tenths(0, 0, 10, 0), Tenths(5, 5, 5, 5)}

\* poly.area
PolyArea(p) == RMul(RSub(p.maxx, p.minx), RSub(p.maxy, p.miny))
\* poly.length
PolyLength(p) ==
    RMul(RInt(2), RAdd(RSub(p.maxx, p.minx), RSub(p.maxy, p.miny)))
\* poly.bounds
PolyBounds(p) == <<p.minx, p.miny, p.maxx, p.maxy>>

\* poly.area > 1e-6
AreaThreshold == R(1, 1000000)
RECURSIVE FilterNoise(_)
FilterNoise(polys) ==
    IF polys = <<>> THEN <<>>
    ELSE LET rest == FilterNoise(Tail(polys))
         IN  IF RLt(AreaThreshold, PolyArea(Head(polys)))
             THEN <<Head(polys)>> \o rest ELSE rest

\* not geom_lines
NoSegments(lines) == lines = <<>>

\* unary_union(geom_lines): the distinct edges of the chains, as unordered
\* pairs of end points; an edge of length zero contributes nothing
UnaryUnion(lines) ==
    {{lines[c][k], lines[c][k + 1]} :
        <<c, k>> \in {ck \in (1..Len(lines)) \X (1..(MaxPts + 1)) :
                        /\ ck[2] < Len(lines[ck[1]])
                        /\ lines[ck[1]][ck[2]] # lines[ck[1]][ck[2] + 1]}}

\* list(polygonize(merged)): the face extraction is shapely's and is not
\* modelled; faces is any list of candidate loops, and no edges give no face
Polygonize(m, faces) == IF m = {} THEN <<>> ELSE faces

---------------------------------------------------------------------------
(* compute_areas_and_walls *)

\* wall_thickness=0.2, units="meters"
DefaultWallThickness == R(2, 10)
DefaultUnits == "meters"

\* the wall thicknesses and unit labels a caller passes (none negative:
\* the thickness is a length)
WallThicknesses == {Zero, R(2, 10), R(3, 10)}
UnitLabels == {"meters", "feet"}

\* poly.buffer(-wall_thickness) of a rectangle, wall_thickness >= 0
Inner(p, wt) ==
    [minx |-> RAdd(p.minx, wt), miny |-> RAdd(p.miny, wt),
     maxx |-> RSub(p.maxx, wt), maxy |-> RSub(p.maxy, wt)]
\* inner.is_empty
InnerIsEmpty(p, wt) ==
    LET b == Inner(p, wt) IN RLe(b.maxx, b.minx) \/ RLe(b.maxy, b.miny)

\* max(0.0, area - perim * wall_thickness)
LinearCarpet(area, perim, wt) == RMax(Zero, RSub(area, RMul(perim, wt)))

\* lines 71-75; raises: whether poly.buffer raised
\* (variants: the clamp to 0 left out; a raise answered with 0)
CarpetAreaUnclamped(p, wt, raises) ==
    IF ~raises /\ ~InnerIsEmpty(p, wt) THEN PolyArea(Inner(p, wt))
    ELSE RSub(PolyArea(p), RMul(PolyLength(p), wt))
CarpetAreaZeroOnRaise(p, wt, raises) ==
    IF raises THEN Zero
    ELSE IF ~InnerIsEmpty(p, wt) THEN PolyArea(Inner(p, wt))
         ELSE LinearCarpet(PolyArea(p), PolyLength(p), wt)
CarpetArea(p, wt, raises) ==
    IF raises THEN LinearCarpet(PolyArea(p), PolyLength(p), wt)
    ELSE IF ~InnerIsEmpty(p, wt) THEN PolyArea(Inner(p, wt))
         ELSE LinearCarpet(PolyArea(p), PolyLength(p), wt)

\* lines 77-89: the record appended for polygon idx (enumerate starts at 1)
\* (variant: enumerate starting at 0)
MakeRoomZeroBased(idx, p, carpet_area) ==
    [id |-> idx - 1, area |-> PolyArea(p), carpet_area |-> carpet_area,
     perimeter |-> PolyLength(p),
     long_wall_length |-> RMul(RInt(2), RSub(p.maxx, p.minx)),
     short_wall_length |-> RMul(RInt(2), RSub(p.maxy, p.miny)),
     bounds |-> PolyBounds(p)]
MakeRoom(idx, p, carpet_area) ==
    [id |-> idx, area |-> PolyArea(p), carpet_area |-> carpet_area,
     perimeter |-> PolyLength(p),
     long_wall_length |-> RMul(RInt(2), RSub(p.maxx, p.minx)),
     short_wall_length |-> RMul(RInt(2), RSub(p.maxy, p.miny)),
     bounds |-> PolyBounds(p)]

\* lines 91-93: <<total_built_up, total_carpet, total_perimeter>>
\* (variant: the area added to total_carpet)
AddTotalsCarpetAsArea(t, room) ==
    <<RAdd(t[1], room.area), RAdd(t[2], room.area), RAdd(t[3], room.perimeter)>>
AddTotals(t, room) ==
    <<RAdd(t[1], room.area), RAdd(t[2], room.carpet_area),
      RAdd(t[3], room.perimeter)>>

\* lines 95-96: the f-string, as its parts; the unit it names is the literal "m"
recommended_setback == R(15, 10)
MarginNote(u) ==
    <<"Recommended minimum setback/margin around building:", recommended_setback,
      "m", "(adjust per local rules).">>

\* lines 98-108
MakeResults(u, wt, rs, t) ==
    [units |-> u, wall_thickness |-> wt, rooms |-> rs,
     totals |-> [built_up_area |-> t[1], carpet_area |-> t[2], perimeter |-> t[3]],
     notes |-> <<MarginNote(u)>>]

---------------------------------------------------------------------------
(* estimate_materials_for_workitems *)

\* cement_bag_kg=50, plaster_thickness_mm=12, tile_size_mm=600
DefaultCementBagKg == 50
DefaultPlasterThicknessMm == 12
DefaultTileSizeMm == 600
DefaultConsts ==
    [cement_bag_kg |-> DefaultCementBagKg,
     plaster_thickness_mm |-> DefaultPlasterThicknessMm,
     tile_size_mm |-> DefaultTileSizeMm]

\* the keyword arguments a caller passes (none negative)
ConstChoices ==
    [cement_bag_kg : {0, 25, DefaultCementBagKg},
     plaster_thickness_mm : {0, DefaultPlasterThicknessMm},
     tile_size_mm : {0, DefaultTileSizeMm}]

footing_depth == R(5, 10)
footing_width == R(6, 10)
slab_thickness == R(15, 100)
pcc_thickness == R(10, 100)
wall_height == R(3, 1)
bricks_per_m3 == 500
paint_coverage_m2_per_l == 10
steel_per_m3 == 80
dry_volume_factor == R(154, 100)
cement_density == 1440
Mix124 == <<1, 2, 4>>

\* excavation_volume = perimeter * 1.0 * 1.0
ExcavationVolume(perimeter) == RMul(RMul(perimeter, RInt(1)), RInt(1))
\* footing_volume = perimeter * footing_width * footing_depth
FootingVolume(perimeter) == RMul(RMul(perimeter, footing_width), footing_depth)
\* slab_volume = built_up * slab_thickness
SlabVolume(built_up) == RMul(built_up, slab_thickness)
\* pcc_volume = built_up * 0.10
PccVolume(built_up) == RMul(built_up, pcc_thickness)
\* wall_volume = perimeter * results["wall_thickness"] * wall_height
\* (variant: the thickness left out)
WallVolumeNoThickness(perimeter, wt) == RMul(perimeter, wall_height)
WallVolume(perimeter, wt) == RMul(RMul(perimeter, wt), wall_height)
\* bricks_required = wall_volume * bricks_per_m3
BricksRequired(perimeter, wt) == RMul(WallVolume(perimeter, wt), RInt(bricks_per_m3))
\* wall_area = perimeter * wall_height
WallArea(perimeter) == RMul(perimeter, wall_height)
\* plaster_volume = wall_area * (plaster_thickness_mm / 1000.0)
PlasterVolume(perimeter, plaster_thickness_mm) ==
    RMul(WallArea(perimeter), R(plaster_thickness_mm, 1000))
\* tile_area_m2 = (tile_size_mm / 1000.0) ** 2
TileArea(tile_size_mm) == RMul(R(tile_size_mm, 1000), R(tile_size_mm, 1000))
\* math.ceil(carpet / tile_area_m2) if tile_area_m2 > 0 else 0
\* (variant: one spare tile always added)
TilesAtLeastOne(carpet, tile_size_mm) ==
    IF RLt(Zero, TileArea(tile_size_mm))
    THEN Ceil(RDiv(carpet, TileArea(tile_size_mm))) + 1 ELSE 0
TilesRequired(carpet, tile_size_mm) ==
    IF RLt(Zero, TileArea(tile_size_mm))
    THEN Ceil(RDiv(carpet, TileArea(tile_size_mm))) ELSE 0

\* sum(mix)
SumMix(mix) == mix[1] + mix[2] + mix[3]

\* lines 153-169, for cement_bag_kg # 0
ConcreteMaterialsForVolume(vol_m3, mix, cement_bag_kg) ==
    LET dry_volume == RMul(vol_m3, dry_volume_factor)
        total_parts == SumMix(mix)
        cement_volume == RMul(dry_volume, R(mix[1], total_parts))
        cement_kg == RMul(cement_volume, RInt(cement_density))
    IN  [concrete_volume_m3 |-> vol_m3,
         cement_kg |-> cement_kg,
         cement_bags |-> RDiv(cement_kg, RInt(cement_bag_kg)),
         sand_m3 |-> RMul(dry_volume, R(mix[2], total_parts)),
         aggregate_m3 |-> RMul(dry_volume, R(mix[3], total_parts))]

\* line 160 raises ZeroDivisionError exactly when cement_bag_kg is 0; every
\* other division is by a literal or behind the tile_area_m2 > 0 test
EstimateFaults(c) == c.cement_bag_kg = 0

\* lines 115-208, for arguments with which no division faults
EstimateMaterials(res, c) ==
    LET built_up == res.totals.built_up_area
        carpet == res.totals.carpet_area
        perimeter == res.totals.perimeter
        excavation_volume == ExcavationVolume(perimeter)
        footing_volume == FootingVolume(perimeter)
        slab_volume == SlabVolume(built_up)
        pcc_volume == PccVolume(built_up)
        bricks_required == BricksRequired(perimeter, res.wall_thickness)
        plaster_volume == PlasterVolume(perimeter, c.plaster_thickness_mm)
        tiles_required == TilesRequired(carpet, c.tile_size_mm)
        total_concrete_volume == RAdd(RAdd(slab_volume, footing_volume), pcc_volume)
        concrete_mat ==
            ConcreteMaterialsForVolume(total_concrete_volume, Mix124, c.cement_bag_kg)
        paint_liters == RDiv(WallArea(perimeter), RInt(paint_coverage_m2_per_l))
        reinforcement_kg == RMul(total_concrete_volume, RInt(steel_per_m3))
    IN  [workitems |-> <<
            [item |-> "Excavation", quantity |-> excavation_volume, unit |-> "m3"],
            [item |-> "PCC (under slab)", quantity |-> pcc_volume, unit |-> "m3"],
            [item |-> "Footing concrete", quantity |-> footing_volume, unit |-> "m3"],
            [item |-> "RCC slab/beams", quantity |-> slab_volume, unit |-> "m3"],
            [item |-> "Reinforcement steel", quantity |-> reinforcement_kg, unit |-> "kg"],
            [item |-> "Masonry (bricks)", quantity |-> bricks_required, unit |-> "nos"],
            [item |-> "Sand (for concrete/mortar)",
             quantity_m3 |-> concrete_mat.sand_m3, unit |-> "m3"],
            [item |-> "Coarse aggregate",
             quantity_m3 |-> concrete_mat.aggregate_m3, unit |-> "m3"],
            [item |-> "Cement", quantity |-> concrete_mat.cement_bags,
             unit |-> "bags", bag_kg |-> c.cement_bag_kg],
            [item |-> "Plaster (both sides)", quantity |-> plaster_volume, unit |-> "m3"],
            [item |-> "Tiles / Flooring", quantity |-> RInt(tiles_required), unit |-> "nos"],
            [item |-> "Paint (liters)", quantity |-> paint_liters, unit |-> "liters"] >>,
         concrete_breakdown |-> concrete_mat,
         plaster_volume_m3 |-> plaster_volume,
         tiles_count |-> tiles_required,
         bricks_count |-> bricks_required,
         paint_liters |-> paint_liters,
         contingency_note |-> "Add ~10% contingency for waste and variations."]

---------------------------------------------------------------------------

NoResults == [status |-> "none"]

Init ==
    /\ pc = "extract"
    /\ error = "none"
    /\ i = 0
    /\ e = NoEntity
    /\ geom_lines = <<>>
    /\ merged = {}
    /\ polygons = <<>>
    /\ wall_thickness = DefaultWallThickness
    /\ units = DefaultUnits
    /\ offset_raises = {}
    /\ rooms = <<>>
    /\ totals = <<Zero, Zero, Zero>>
    /\ results = NoResults
    /\ consts = NoResults
    /\ materials = NoResults

ParseFrame == <<merged, polygons, wall_thickness, units, offset_raises, rooms, totals,
                results, consts, materials>>

\* lines 31-34: a LINE with both endpoints
ExtractLine(en) ==
    /\ en.type = "LINE" /\ ~LineMalformed(en)
    /\ geom_lines' = Append(geom_lines, <<en.start, en.end>>)
    /\ pc' = "extract" /\ error' = error

\* lines 32-34 are not guarded: reading an absent endpoint either raises,
\* which ends the run, or yields the attribute's default
ExtractLineFault(en) ==
    /\ LineMalformed(en)
    /\ \/ /\ pc' = "aborted" /\ error' = "DXFValueError"
          /\ geom_lines' = <<>>
       \/ /\ pc' = "extract" /\ error' = error
          /\ geom_lines' = Append(geom_lines,
                <<IF en.start = Missing THEN NullVec ELSE en.start,
                  IF en.end = Missing THEN NullVec ELSE en.end>>)

\* lines 35-48
ExtractPoly(en) ==
    /\ en.type \in {"LWPOLYLINE", "POLYLINE"}
    /\ geom_lines' = geom_lines \o PolyContribution(en)
    /\ pc' = "extract" /\ error' = error

\* any other entity type: neither branch
ExtractOther(en) ==
    /\ en.type \notin {"LINE", "LWPOLYLINE", "POLYLINE"}
    /\ UNCHANGED <<geom_lines, pc, error>>

\* one iteration of "for e in msp"
ExtractEntity ==
    /\ pc = "extract" /\ i < MaxEntities
    /\ \E en \in Entities :
          /\ e' = en
          /\ i' = i + 1
          /\ \/ ExtractLine(en)
             \/ ExtractLineFault(en)
             \/ ExtractPoly(en)
             \/ ExtractOther(en)
    /\ UNCHANGED ParseFrame

\* lines 50-51: the loop is over and nothing was collected
ParseEmpty ==
    /\ pc = "extract" /\ NoSegments(geom_lines)
    /\ polygons' = <<>>
    /\ pc' = "parsed"
    /\ e' = NoEntity /\ i' = 0
    /\ UNCHANGED <<error, geom_lines, merged, wall_thickness, units, offset_raises,
                   rooms, totals, results, consts, materials>>

\* line 53; geom_lines, e and the iteration are not read again
ParseMerge ==
    /\ pc = "extract" /\ ~NoSegments(geom_lines)
    /\ merged' = UnaryUnion(geom_lines)
    /\ pc' = "polygonize"
    /\ geom_lines' = <<>> /\ e' = NoEntity /\ i' = 0
    /\ UNCHANGED <<error, polygons, wall_thickness, units, offset_raises, rooms,
                   totals, results, consts, materials>>

\* lines 54-56
ParsePolygonize ==
    /\ pc = "polygonize"
    /\ \E faces \in SeqsUpTo(Faces, MaxPolys) :
          polygons' = FilterNoise(Polygonize(merged, faces))
    /\ pc' = "parsed"
    /\ merged' = {}
    /\ UNCHANGED <<error, i, e, geom_lines, wall_thickness, units, offset_raises,
                   rooms, totals, results, consts, materials>>

\* the call compute_areas_and_walls(polygons, wall_thickness, units), lines 63-66
ComputeStart ==
    /\ pc = "parsed"
    /\ \E wt \in WallThicknesses, u \in UnitLabels :
          wall_thickness' = wt /\ units' = u
    /\ \E S \in SUBSET (1..Len(polygons)) : offset_raises' = S
    /\ rooms' = <<>>
    /\ totals' = <<Zero, Zero, Zero>>
    /\ pc' = "compute"
    /\ UNCHANGED <<error, i, e, geom_lines, merged, polygons, results, consts, materials>>

\* one iteration of "for idx, poly in enumerate(polygons, start=1)"
ComputeRoom ==
    /\ pc = "compute" /\ Len(rooms) < Len(polygons)
    /\ LET idx == Len(rooms) + 1
           poly == polygons[idx]
           room == MakeRoom(idx, poly,
                            CarpetArea(poly, wall_thickness, idx \in offset_raises))
       IN  /\ rooms' = Append(rooms, room)
           /\ totals' = AddTotals(totals, room)
    /\ UNCHANGED <<pc, error, i, e, geom_lines, merged, polygons, wall_thickness, units,
                   offset_raises, results, consts, materials>>

\* lines 95-108
ComputeReturn ==
    /\ pc = "compute" /\ Len(rooms) = Len(polygons)
    /\ results' = MakeResults(units, wall_thickness, rooms, totals)
    /\ pc' = "computed"
    /\ UNCHANGED <<error, i, e, geom_lines, merged, polygons, wall_thickness, units,
                   offset_raises, rooms, totals, consts, materials>>

\* the call estimate_materials_for_workitems(results, ...), returning normally
Estimate ==
    /\ pc = "computed"
    /\ \E c \in ConstChoices :
          /\ ~EstimateFaults(c)
          /\ consts' = c
          /\ materials' = EstimateMaterials(results, c)
    /\ pc' = "done"
    /\ UNCHANGED <<error, i, e, geom_lines, merged, polygons, wall_thickness, units,
                   offset_raises, rooms, totals, results>>

\* the same call, ended by the division of line 160
EstimateRaises ==
    /\ pc = "computed"
    /\ \E c \in ConstChoices :
          /\ EstimateFaults(c)
          /\ consts' = c
    /\ pc' = "aborted"
    /\ error' = "ZeroDivisionError"
    /\ UNCHANGED <<i, e, geom_lines, merged, polygons, wall_thickness, units,
                   offset_raises, rooms, totals, results, materials>>

Next ==
    \/ ExtractEntity
    \/ ParseEmpty
    \/ ParseMerge
    \/ ParsePolygonize
    \/ ComputeStart
    \/ ComputeRoom
    \/ ComputeReturn
    \/ Estimate
    \/ EstimateRaises

Spec == Init /\ [][Next]_vars

---------------------------------------------------------------------------
(* Helpers of the properties. *)

RECURSIVE SumArea(_)
SumArea(rs) == IF rs = <<>> THEN Zero ELSE RAdd(SumArea(SubSeq(rs, 1, Len(rs) - 1)), rs[Len(rs)].area)
RECURSIVE SumCarpet(_)
SumCarpet(rs) == IF rs = <<>> THEN Zero ELSE RAdd(SumCarpet(SubSeq(rs, 1, Len(rs) - 1)), rs[Len(rs)].carpet_area)
RECURSIVE SumPerimeter(_)
SumPerimeter(rs) == IF rs = <<>> THEN Zero ELSE RAdd(SumPerimeter(SubSeq(rs, 1, Len(rs) - 1)), rs[Len(rs)].perimeter)

InLoop == pc = "compute"
HasResults == "totals" \in DOMAIN results
HasMaterials == "workitems" \in DOMAIN materials
\* room k was computed on the fallback branch: buffer raised, or the offset is empty
Fallback(k) == k \in offset_raises \/ InnerIsEmpty(polygons[k], wall_thickness)
\* the rooms built so far, during the loop and after the return
RoomsNow == IF HasResults THEN results.rooms ELSE rooms
\* a work item's quantity, under either key
ItemQuantity(w) == IF "quantity" \in DOMAIN w THEN w.quantity ELSE w.quantity_m3

---------------------------------------------------------------------------
(* C1: after every loop iteration, and in the returned dict, each total is *)
(* the sum of that field over the rooms appended so far.                   *)
C1_Conservation ==
    /\ InLoop =>
          totals = <<SumArea(rooms), SumCarpet(rooms), SumPerimeter(rooms)>>
    /\ HasResults =>
          /\ results.totals.built_up_area = SumArea(results.rooms)
          /\ results.totals.carpet_area = SumCarpet(results.rooms)
          /\ results.totals.perimeter = SumPerimeter(results.rooms)

C1_Witness ==
    /\ InLoop /\ Len(rooms) = 2
    /\ rooms[1].carpet_area # rooms[1].area
    /\ totals[2] = RAdd(rooms[1].carpet_area, rooms[2].carpet_area)

(* C2: every room has 0 <= carpet_area <= area, and a room computed on the *)
(* fallback branch has carpet_area = area only when wall_thickness is 0.   *)
C2_CarpetWithinArea ==
    \A k \in 1..Len(RoomsNow) :
        /\ RLe(Zero, RoomsNow[k].carpet_area)
        /\ RLe(RoomsNow[k].carpet_area, RoomsNow[k].area)
        /\ (Fallback(k) /\ RoomsNow[k].carpet_area = RoomsNow[k].area)
              => wall_thickness = Zero

C2_Witness ==
    /\ InLoop
    /\ \E k \in 1..Len(rooms) :
          /\ Fallback(k) /\ RLt(Zero, wall_thickness)
          /\ rooms[k].carpet_area = Zero
    /\ \E k \in 1..Len(rooms) :
          /\ k \in offset_raises /\ RLt(Zero, wall_thickness)
          /\ RLt(Zero, rooms[k].carpet_area)
          /\ RLt(rooms[k].carpet_area, rooms[k].area)

\* the materials for the same totals and constants with wall thickness t2
WithThickness(t2) ==
    EstimateMaterials([results EXCEPT !.wall_thickness = t2], consts)

(* C3 as stated: with perimeter > 0 and all else fixed, a larger           *)
(* wall_thickness gives strictly more bricks and strictly more plaster     *)
(* volume, and no less cement, sand and aggregate.                         *)
C3_Original ==
    (pc = "done" /\ RLt(Zero, results.totals.perimeter)) =>
        \A t2 \in WallThicknesses :
            RLt(results.wall_thickness, t2) =>
                LET m2 == WithThickness(t2)
                IN  /\ RLt(materials.bricks_count, m2.bricks_count)
                    /\ RLt(materials.plaster_volume_m3, m2.plaster_volume_m3)
                    /\ RLe(materials.concrete_breakdown.cement_kg,
                           m2.concrete_breakdown.cement_kg)
                    /\ RLe(materials.concrete_breakdown.cement_bags,
                           m2.concrete_breakdown.cement_bags)
                    /\ RLe(materials.concrete_breakdown.sand_m3,
                           m2.concrete_breakdown.sand_m3)
                    /\ RLe(materials.concrete_breakdown.aggregate_m3,
                           m2.concrete_breakdown.aggregate_m3)

(* C3, amended: with perimeter > 0 and all else fixed, a larger            *)
(* wall_thickness gives strictly more bricks, the same plaster volume, and *)
(* no less cement, sand and aggregate.                                     *)
C3_Monotone ==
    (pc = "done" /\ RLt(Zero, results.totals.perimeter)) =>
        \A t2 \in WallThicknesses :
            RLt(results.wall_thickness, t2) =>
                LET m2 == WithThickness(t2)
                IN  /\ RLt(materials.bricks_count, m2.bricks_count)
                    /\ m2.plaster_volume_m3 = materials.plaster_volume_m3
                    /\ RLe(materials.concrete_breakdown.cement_kg,
                           m2.concrete_breakdown.cement_kg)
                    /\ RLe(materials.concrete_breakdown.cement_bags,
                           m2.concrete_breakdown.cement_bags)
                    /\ RLe(materials.concrete_breakdown.sand_m3,
                           m2.concrete_breakdown.sand_m3)
                    /\ RLe(materials.concrete_breakdown.aggregate_m3,
                           m2.concrete_breakdown.aggregate_m3)

C3_Witness ==
    /\ pc = "done"
    /\ RLt(Zero, results.totals.perimeter)
    /\ RLt(Zero, results.wall_thickness)
    /\ RLt(Zero, materials.plaster_volume_m3)
    /\ \E t2 \in WallThicknesses : RLt(results.wall_thickness, t2)

\* the step is one iteration of the extraction loop, over entity e'
LoopStep == pc = "extract" /\ i' = i + 1

(* C4: an iteration over a malformed entity (a LINE without an endpoint, a *)
(* poly-vertex entity whose vertex data cannot be read) adds nothing to    *)
(* geom_lines and leaves the loop running.                                 *)
C4_MalformedDropped ==
    [][(LoopStep /\ Malformed(e')) =>
          (pc' = "extract" /\ error' = "none" /\ geom_lines' = geom_lines)]_vars

(* C5: a poly-vertex entity with fewer than 3 points adds nothing; with 3  *)
(* or more points and first # last it adds its points followed by the      *)
(* first, a chain whose ends coincide; already closed it adds its points   *)
(* unchanged.  A LINE with both endpoints adds one two-point segment.      *)
C5_Contribution ==
    [][(LoopStep /\ pc' = "extract") =>
          /\ e'.type \in {"LWPOLYLINE", "POLYLINE"} =>
                LET pts == ReadPts(e')
                    n == Len(pts)
                IN  /\ n < 3 => geom_lines' = geom_lines
                    /\ (n >= 3 /\ pts[1] # pts[n]) =>
                          /\ geom_lines' = Append(geom_lines, Append(pts, pts[1]))
                          /\ LET c == geom_lines'[Len(geom_lines')]
                             IN  c[1] = c[Len(c)] /\ Len(c) = n + 1
                    /\ (n >= 3 /\ pts[1] = pts[n]) =>
                          geom_lines' = Append(geom_lines, pts)
          /\ (e'.type = "LINE" /\ ~LineMalformed(e')) =>
                /\ geom_lines' = Append(geom_lines, <<e'.start, e'.end>>)
                /\ Len(geom_lines'[Len(geom_lines')]) = 2]_vars

C5_Witness ==
    /\ pc = "extract" /\ e.type = "LWPOLYLINE" /\ e.readable
    /\ Len(e.data) = 3
    /\ e.data[1] # e.data[3]
    /\ Len(geom_lines) = 2
    /\ Len(geom_lines[2]) = 4
    /\ geom_lines[2][4] = geom_lines[2][1]
    /\ Len(geom_lines[1]) = 2

(* C6: a room's carpet_area is the area of the inward offset when buffer   *)
(* returned a non-empty offset, and max(0, area - perimeter *              *)
(* wall_thickness) when the offset is empty or buffer raised; a raise ends *)
(* neither the loop nor the run, and every polygon gets its room.          *)
C6_CarpetBranches ==
    /\ \A k \in 1..Len(RoomsNow) :
          LET p == polygons[k]
              a == RoomsNow[k].area
              linear == RSub(a, RMul(RoomsNow[k].perimeter, wall_thickness))
          IN  RoomsNow[k].carpet_area =
                 IF k \notin offset_raises /\ ~InnerIsEmpty(p, wall_thickness)
                 THEN PolyArea(Inner(p, wall_thickness))
                 ELSE IF RLt(linear, Zero) THEN Zero ELSE linear
    /\ InLoop => error = "none"
    /\ HasResults => Len(results.rooms) = Len(polygons)

C6_Witness ==
    /\ HasResults /\ Len(results.rooms) = 2
    /\ 1 \in offset_raises
    /\ RLt(Zero, wall_thickness)
    /\ RLt(Zero, results.rooms[1].carpet_area)
    /\ 2 \notin offset_raises
    /\ InnerIsEmpty(polygons[2], wall_thickness)

(* C7: estimate_materials_for_workitems never ends in a division fault for *)
(* non-negative arguments, zero included, and yields 0 tiles when the tile *)
(* area is 0.                                                              *)
C7_NoErrorOutcome ==
    /\ error # "ZeroDivisionError"
    /\ (HasMaterials /\ consts.tile_size_mm = 0) => materials.tiles_count = 0

ZeroTotals ==
    /\ results.totals.built_up_area = Zero
    /\ results.totals.carpet_area = Zero
    /\ results.totals.perimeter = Zero

(* C8: with no segments collected parse returns the empty list without an  *)
(* error; compute on the empty list returns no rooms and totals (0, 0, 0); *)
(* the estimate on zero totals with the default constants does not fault   *)
(* and returns the 12 work items, each with quantity 0, and 0 tiles.       *)
C8_Degenerate ==
    [][/\ (pc = "extract" /\ pc' \in {"polygonize", "parsed"} /\ geom_lines = <<>>) =>
              (pc' = "parsed" /\ polygons' = <<>> /\ error' = "none")
       /\ (pc = "compute" /\ pc' = "computed" /\ polygons = <<>>) =>
              (results'.rooms = <<>> /\ ZeroTotals')
       /\ (pc = "computed" /\ ZeroTotals /\ consts' = DefaultConsts) =>
              /\ pc' = "done" /\ error' = "none"
              /\ Len(materials'.workitems) = 12
              /\ \A k \in 1..12 : ItemQuantity(materials'.workitems[k]) = Zero
              /\ materials'.tiles_count = 0]_vars

C8_Witness ==
    /\ pc = "done"
    /\ polygons = <<>> /\ results.rooms = <<>> /\ ZeroTotals
    /\ consts = DefaultConsts
    /\ materials.tiles_count = 0
    /\ Len(materials.workitems) = 12

(* C9: the result holds one note, it states a setback of 1.5, and the unit *)
(* the note names follows the units argument: a call that differs only in  *)
(* units returns a different note.                                         *)
C9_NoteFollowsUnits ==
    HasResults =>
        /\ Len(results.notes) = 1
        /\ results.notes[1][2] = R(15, 10)
        /\ \A u2 \in UnitLabels \ {results.units} :
              MarginNote(u2) # results.notes[1]

\* room r carries the metrics of polygon p alone, under id k
RoomOf(r, k, p) ==
    /\ r.id = k
    /\ r.area = RMul(RSub(p.maxx, p.minx), RSub(p.maxy, p.miny))
    /\ r.perimeter = RAdd(RAdd(RSub(p.maxx, p.minx), RSub(p.maxy, p.miny)),
                          RAdd(RSub(p.maxx, p.minx), RSub(p.maxy, p.miny)))
    /\ r.bounds = <<p.minx, p.miny, p.maxx, p.maxy>>
    /\ r.long_wall_length = RAdd(RSub(p.maxx, p.minx), RSub(p.maxx, p.minx))
    /\ r.short_wall_length = RAdd(RSub(p.maxy, p.miny), RSub(p.maxy, p.miny))

(* C10: the rooms are one per polygon, in input order: room k has id k and *)
(* the area, perimeter, bounds and long/short wall lengths of polygon k;   *)
(* the returned list is as long as the input, which the call leaves as it  *)
(* was.                                                                    *)
C10_OneRoomPerPolygon ==
    [][/\ (pc \in {"parsed", "compute"}) => polygons' = polygons
       /\ (pc' = "compute") =>
              /\ Len(rooms') <= Len(polygons')
              /\ \A k \in 1..Len(rooms') : RoomOf(rooms'[k], k, polygons'[k])
       /\ (pc' = "computed") =>
              /\ Len(results'.rooms) = Len(polygons')
              /\ \A k \in 1..Len(polygons') :
                    RoomOf(results'.rooms[k], k, polygons'[k])]_vars

C10_Witness ==
    /\ pc = "computed" /\ Len(results.rooms) = 2
    /\ results.rooms[1].id = 1 /\ results.rooms[2].id = 2
    /\ results.rooms[1].bounds # results.rooms[2].bounds
    /\ results.rooms[1].area = RInt(60)
    /\ results.rooms[1].perimeter = RInt(32)
    /\ results.rooms[1].long_wall_length = RInt(20)
    /\ results.rooms[1].short_wall_length = RInt(12)

==========================================================================
